---- MODULE Spec2Model ----
(***************************************************************************)
(* Job lifecycle of the processing engine: the job collection, the job     *)
(* repository (app/db/repositories), the job service (app/services) and    *)
(* the deliveries of the processing callback.  Every store operation       *)
(* (find_one, find_one_and_update, insert_one, delete_one) is one atomic   *)
(* step; a process_job call is a sequence of such steps, one per await,    *)
(* and any other call may run between two of them.                         *)
(***************************************************************************)
EXTENDS Integers, Sequences, FiniteSets, TLC

\* ---------------------------------------------------------------- bounds
MaxJobs == 1
MaxDeliveries == 2
MaxTime == 1
MaxAttempts == 2

MaxListed == 2
MaxSkip == 2
MaxLimit == 2
MaxConnects == 3

JobIds == 1..MaxJobs
Deliveries == 1..MaxDeliveries
Users == {"u1", "u2"}

\* ------------------------------------------------------------ JobStatus
QUEUED == "queued"
PROCESSING == "processing"
COMPLETED == "completed"
FAILED == "failed"
CANCELLED == "cancelled"
JobStatus == {QUEUED, PROCESSING, COMPLETED, FAILED, CANCELLED}

\* Optional[T]: None is the empty sequence, a value v is <<v>>.
None == <<>>
Some(v) == <<v>>

VARIABLES
    store,      \* the job collection: _id -> document
    nextId,     \* the next _id insert_one assigns
    now,        \* the clock datetime.utcnow() / datetime.now(utc) reads
    proc,       \* each delivery of the callback: its place in process_job
    lastOp,     \* the call (or step of process_job) that ran last, and its outcome
    mongo       \* the MongoDB class: its client and db attributes, and the clients made

vars == <<store, nextId, now, proc, lastOp, mongo>>

\* ----------------------------------------------------------- outcomes
Absent == [kind |-> "absent"]
Raised(exc) == [kind |-> "raise", exc |-> exc]
Bool(b) == [kind |-> "bool", val |-> b]
Pending == [kind |-> "pending"]

\* JobResponse.model_validate(job): the fields the response model keeps.
JobResponse(id, doc) ==
    [kind |-> "job", id |-> id, title |-> doc.title, status |-> doc.status,
     priority |-> doc.priority, created_at |-> doc.created_at,
     updated_at |-> doc.updated_at, started_at |-> doc.started_at,
     completed_at |-> doc.completed_at, result |-> doc.result,
     error |-> doc.error]

Op(op, ret) == [op |-> op, ret |-> ret]
\* An owner-scoped service call: the job id and the caller's id it was given.
Call(op, job_id, user_id, ret) ==
    [op |-> op, ret |-> ret, job_id |-> job_id, user_id |-> user_id]

\* ------------------------------------------------------ BaseRepository
\* collection.find_one({"_id": id})
BaseRepository_get(s, id) == IF id \in DOMAIN s THEN <<s[id]>> ELSE None

\* An update whose $set also hands the document to another user.
BaseRepository_update_reowned(s, id, data) ==
    IF id \in DOMAIN s
    THEN [s EXCEPT ![id] = [f \in DOMAIN @ |-> IF f = "user_id" THEN "u2"
                                               ELSE IF f \in DOMAIN data THEN data[f] ELSE @[f]]]
    ELSE s

\* An update with upsert=True: a missing _id gets a new document.
BaseRepository_update_upsert(s, id, data) ==
    IF id \in DOMAIN s
    THEN [s EXCEPT ![id] = [f \in DOMAIN @ |-> IF f \in DOMAIN data THEN data[f] ELSE @[f]]]
    ELSE s @@ (id :> (data @@ [title |-> "", priority |-> 0, user_id |-> "", status |-> QUEUED,
                               created_at |-> 0, updated_at |-> 0, attempts |-> 0,
                               result |-> None, error |-> None,
                               started_at |-> None, completed_at |-> None]))

\* find_one_and_update({"_id": id}, {"$set": data}, upsert=False)
BaseRepository_update(s, id, data) ==
    IF id \in DOMAIN s
    THEN [s EXCEPT ![id] = [f \in DOMAIN @ |-> IF f \in DOMAIN data THEN data[f] ELSE @[f]]]
    ELSE s

\* collection.delete_one({"_id": id})
BaseRepository_delete(s, id) == [j \in DOMAIN s \ {id} |-> s[j]]

\* ------------------------------------------------------- JobRepository
\* A get that drops the user_id term of its query.
JobRepository_get_unscoped(s, id, user_id) == BaseRepository_get(s, id)

\* get: find_one({"_id": id, "user_id": user_id})
JobRepository_get(s, id, user_id) ==
    IF id \in DOMAIN s /\ s[id].user_id = user_id THEN <<s[id]>> ELSE None

\* A get_by_id that answers a missing id with an empty QUEUED document.
JobRepository_get_by_id_or_default(s, id) ==
    IF id \in DOMAIN s THEN <<s[id]>>
    ELSE <<[title |-> "", priority |-> 0, user_id |-> "", status |-> QUEUED,
            created_at |-> 0, updated_at |-> 0, attempts |-> 0,
            result |-> None, error |-> None,
            started_at |-> None, completed_at |-> None]>>

JobRepository_get_by_id(s, id) == BaseRepository_get(s, id)

\* create: the document insert_one stores; utcnow() is read twice (t1, t2).
JobRepository_create(user_id, data, status, t1, t2) ==
    [title |-> data.title, priority |-> data.priority,
     user_id |-> user_id, status |-> status,
     created_at |-> t1, updated_at |-> t2, attempts |-> 0,
     result |-> None, error |-> None,
     started_at |-> None, completed_at |-> None]

\* An update_status that also counts the transition as an attempt.
update_data_counting(status, error, t1, t2) ==
    [status |-> status, updated_at |-> t1, attempts |-> 1]

\* update_status: the $set it builds; utcnow() is read twice (t1, t2).
update_data(status, error, t1, t2) ==
    LET base == [status |-> status, updated_at |-> t1]
        stamp == IF status = PROCESSING THEN [started_at |-> Some(t2)]
                 ELSE IF status \in {COMPLETED, FAILED} THEN [completed_at |-> Some(t2)]
                 ELSE <<>>
        err == IF error # None THEN [error |-> error] ELSE <<>>
    IN  base @@ stamp @@ err

JobRepository_update_status(s, id, status, error, t1, t2) ==
    BaseRepository_update(s, id, update_data(status, error, t1, t2))

\* An increment that writes back one more than the value the job was created
\* with, instead of incrementing in the store.
JobRepository_increment_attempts_stale(s, id, t) ==
    IF id \in DOMAIN s
    THEN [s EXCEPT ![id] = [@ EXCEPT !.attempts = 1, !.updated_at = t]]
    ELSE s

\* An increment that counts down.
JobRepository_decrement_attempts(s, id, t) ==
    IF id \in DOMAIN s
    THEN [s EXCEPT ![id] = [@ EXCEPT !.attempts = @ - 1, !.updated_at = t]]
    ELSE s

\* increment_attempts: {"$inc": {"attempts": 1}, "$set": {"updated_at": utcnow()}}
JobRepository_increment_attempts(s, id, t) ==
    IF id \in DOMAIN s
    THEN [s EXCEPT ![id] = [@ EXCEPT !.attempts = @ + 1, !.updated_at = t]]
    ELSE s

\* ------------------------------------------------------------- clock
\* A second clock read in the same handler is not before the first.
Later(t) == {u \in {t, t + 1} : u <= MaxTime}

Tick ==
    /\ now < MaxTime
    /\ now' = now + 1
    /\ lastOp' = Op("tick", Pending)
    /\ UNCHANGED <<store, nextId, proc, mongo>>

\* ------------------------------------------------------------- MongoDB
\* The clients AsyncIOMotorClient(...) constructs, in the order it makes them.
Clients == 1..MaxConnects

\* The class attributes before any connect, with no client made yet.
Disconnected ==
    [client |-> None, db |-> None, made |-> 0, closed |-> {}, pinged |-> {}]

\* The class after the connect of application startup: the first client,
\* its database handle, the ping answered.
Connected ==
    [client |-> Some(1), db |-> Some(1), made |-> 1, closed |-> {}, pinged |-> {1}]

\* cls.client[settings.DATABASE_NAME]: the database handle of client c.
Database(c) == [kind |-> "db", client |-> c]

\* connect: client and db are assigned, then the ping is awaited; a failed
\* ping is logged and re-raised, the two attributes stay as assigned.
Connect ==
    /\ mongo.made < MaxConnects
    /\ \E ping \in BOOLEAN :
        LET c == mongo.made + 1
        IN  /\ mongo' = [mongo EXCEPT !.client = Some(c), !.db = Some(c), !.made = c,
                                       !.pinged = IF ping THEN @ \cup {c} ELSE @]
            /\ lastOp' = Op("connect", IF ping THEN Absent ELSE Raised("ConnectionFailure"))
    /\ UNCHANGED <<store, nextId, now, proc>>

\* disconnect: with a client, close it and reset both attributes; else nothing.
Disconnect ==
    /\ mongo' = IF mongo.client # None
                THEN [mongo EXCEPT !.client = None, !.db = None,
                                   !.closed = @ \cup {mongo.client[1]}]
                ELSE mongo
    /\ lastOp' = Op("disconnect", Absent)
    /\ UNCHANGED <<store, nextId, now, proc>>

\* get_db: raise ConnectionError without a db, else return it.
get_db(m) == IF m.db = None THEN Raised("ConnectionError") ELSE Database(m.db[1])

GetDb ==
    /\ lastOp' = Op("get_db", get_db(mongo))
    /\ UNCHANGED <<store, nextId, now, proc, mongo>>

\* ---------------------------------------------------------- JobService
Idle == [pc |-> "idle", jid |-> 0, err |-> None]

Init ==
    /\ store = <<>>
    /\ nextId = 1
    /\ now = 0
    /\ proc = [d \in Deliveries |-> Idle]
    /\ lastOp = Op("init", Pending)
    /\ mongo = Connected

\* A _schedule_processing that always targets the same job.
schedule_processing_fixed(job_id) ==
    [http_method |-> "POST", url |-> <<"jobs", 1, "process">>]

\* _schedule_processing: the task handed to create_task, its url naming the job.
schedule_processing(job_id) ==
    [http_method |-> "POST", url |-> <<"jobs", job_id, "process">>]

\* The outcome of create_job and the tasks create_task accepted during the call.
Created(ret, tasks) == [op |-> "create", ret |-> ret, tasks |-> tasks]

\* JobCreate(title=..., priority=...) as the caller sends it.
JobCreates == {[title |-> "a", priority |-> 0]}

\* A create_job that removes the job again when scheduling fails.
CreateJob_Rollback(user_id, job_create) ==
    /\ nextId <= MaxJobs
    /\ \E t2 \in Later(now), sched \in BOOLEAN :
        LET doc == JobRepository_create(user_id, job_create, QUEUED, now, t2)
        IN  /\ store' = IF sched THEN store @@ (nextId :> doc) ELSE store
            /\ now' = t2
            /\ lastOp' = IF sched
                         THEN Created(JobResponse(nextId, doc), <<schedule_processing(nextId)>>)
                         ELSE Created(Raised("DispatchError"), <<>>)
    /\ nextId' = nextId + 1
    /\ UNCHANGED <<proc, mongo>>

\* create_job: repository.create, then _schedule_processing (create_task may raise).
CreateJob(user_id, job_create) ==
    /\ nextId <= MaxJobs
    /\ \E t2 \in Later(now), sched \in BOOLEAN :
        LET doc == JobRepository_create(user_id, job_create, QUEUED, now, t2)
        IN  /\ store' = store @@ (nextId :> doc)
            /\ now' = t2
            /\ lastOp' = IF sched
                         THEN Created(JobResponse(nextId, doc), <<schedule_processing(nextId)>>)
                         ELSE Created(Raised("DispatchError"), <<>>)
    /\ nextId' = nextId + 1
    /\ UNCHANGED <<proc, mongo>>

\* model_dump(exclude_unset=True): only the fields the caller set.
JobUpdates == [title : {None, Some("b")}, priority : {None, Some(5)}]

\* A dump that keeps the fields the caller left unset, as nulls.
model_dump_with_unset(job_update) ==
    [f \in DOMAIN job_update |-> IF job_update[f] # None THEN job_update[f][1] ELSE "null"]

model_dump(job_update) ==
    [f \in {g \in DOMAIN job_update : job_update[g] # None} |-> job_update[f][1]]

\* update_job: the ownership test `job and job.user_id == user_id` that follows
\* the unscoped repository.update.
update_job_result(s, job_id, user_id) ==
    IF job_id \in DOMAIN s /\ s[job_id].user_id = user_id
    THEN JobResponse(job_id, s[job_id])
    ELSE Absent

\* update_job: repository.update(job_id, update_data), then the ownership test.
\* An empty $set is rejected by servers older than MongoDB 5.0 and a no-op on
\* later ones: both outcomes are taken.
UpdateJob(job_id, job_update, user_id) ==
    LET data == model_dump(job_update)
    IN  \E accepted \in BOOLEAN :
            /\ accepted \/ DOMAIN data = {}
            /\ store' = IF accepted THEN BaseRepository_update(store, job_id, data) ELSE store
            /\ lastOp' = Call("update", job_id, user_id, IF accepted THEN update_job_result(store', job_id, user_id)
                            ELSE Raised("OperationFailure"))
            /\ UNCHANGED <<nextId, now, proc, mongo>>

\* delete_job: repository.delete(job_id); user_id is not used.
delete_job(s, job_id, user_id) == BaseRepository_delete(s, job_id)

DeleteJob(job_id, user_id) ==
    /\ store' = delete_job(store, job_id, user_id)
    /\ lastOp' = Call("delete", job_id, user_id, Bool(job_id \in DOMAIN store))
    /\ UNCHANGED <<nextId, now, proc, mongo>>

\* get_job: repository.get(job_id, user_id), then JobResponse.model_validate.
get_job(s, job_id, user_id) ==
    LET job == JobRepository_get(s, job_id, user_id)
    IN  IF job # None THEN JobResponse(job_id, job[1]) ELSE Absent

GetJob(job_id, user_id) ==
    /\ lastOp' = Call("get", job_id, user_id, get_job(store, job_id, user_id))
    /\ UNCHANGED <<store, nextId, now, proc, mongo>>

\* ------------------------------------------------------------- list_jobs
\* list_by_user: {"user_id": user_id}, and "status" too when status is truthy
\* (neither None nor the empty string).
list_by_user_query(s, user_id, status) ==
    {j \in DOMAIN s : /\ s[j].user_id = user_id
                      /\ (status # None /\ status[1] # "") => s[j].status = status[1]}

\* find(query).sort([("created_at", -1)]): the matching documents, newest
\* first; documents of equal created_at come in any order.
Sorted(s, ids) ==
    {seq \in [1..Cardinality(ids) -> ids] :
        /\ \A i, k \in DOMAIN seq : i # k => seq[i] # seq[k]
        /\ \A i, k \in DOMAIN seq : i < k => s[seq[i]].created_at >= s[seq[k]].created_at}

\* cursor.skip(skip).limit(limit): a limit of 0 is no limit to the store.
Page(seq, skip, limit) ==
    LET rest == SubSeq(seq, skip + 1, Len(seq))
    IN  IF limit = 0 \/ limit >= Len(rest) THEN rest ELSE SubSeq(rest, 1, limit)

\* list_jobs: repository.list_by_user, then JobResponse.model_validate of each.
ListJobs(user_id, status, skip, limit) ==
    /\ \E seq \in Sorted(store, list_by_user_query(store, user_id, status)) :
          lastOp' = [op |-> "list", user_id |-> user_id, status |-> status,
                     skip |-> skip, limit |-> limit,
                     ret |-> [kind |-> "list",
                              items |-> [i \in DOMAIN Page(seq, skip, limit) |->
                                           JobResponse(Page(seq, skip, limit)[i],
                                                       store[Page(seq, skip, limit)[i]])]]]
    /\ UNCHANGED <<store, nextId, now, proc, mongo>>

\* ----------------------------------------- repository calls made directly
\* update_status(error=...): "Optional error message for failed jobs".
Errors(status) == IF status = FAILED THEN {None, Some("ProcessingError")} ELSE {None}

Found(s, id) == IF id \in DOMAIN s THEN JobResponse(id, s[id]) ELSE Absent

UpdateStatus(job_id, status, error) ==
    /\ \E t2 \in Later(now) :
        /\ store' = JobRepository_update_status(store, job_id, status, error, now, t2)
        /\ now' = t2
    /\ lastOp' = Op("update_status", Found(store', job_id))
    /\ UNCHANGED <<nextId, proc, mongo>>

IncrementAttempts(job_id) ==
    /\ job_id \in DOMAIN store => store[job_id].attempts < MaxAttempts
    /\ store' = JobRepository_increment_attempts(store, job_id, now)
    /\ lastOp' = Op("increment_attempts", Found(store', job_id))
    /\ UNCHANGED <<nextId, now, proc, mongo>>

\* cleanup_old_jobs: `timedelta` is not imported by repositories/jobs.py, so the
\* first statement raises NameError before delete_many is reached.
CleanupOldJobs(days) ==
    /\ days \in 0..MaxTime
    /\ lastOp' = Op("cleanup_old_jobs", Raised("NameError"))
    /\ UNCHANGED <<store, nextId, now, proc, mongo>>

\* find_stalled_jobs: `timedelta` is not imported by repositories/jobs.py, so the
\* first statement raises NameError before the query is built or sent.
FindStalledJobs(threshold_minutes) ==
    /\ threshold_minutes \in 0..MaxTime
    /\ lastOp' = Op("find_stalled_jobs", Raised("NameError"))
    /\ UNCHANGED <<store, nextId, now, proc, mongo>>

\* ----------------------------------------------------------- process_job
\* A guard that stops only on COMPLETED.
IsFinished_CompletedOnly(status) == status = COMPLETED

\* The idempotency guard: job.status in [COMPLETED, FAILED].
IsFinished(status) == status \in {COMPLETED, FAILED}

At(d, pc) == proc[d].pc = pc
Goto(d, pc) == [proc EXCEPT ![d].pc = pc]

\* get_by_id, the not-found test and the guard.
ProcessLookup(d, job_id) ==
    /\ At(d, "idle")
    /\ LET job == JobRepository_get_by_id(store, job_id)
       IN  IF job = None
           THEN /\ lastOp' = Op("process", Raised("ValueError"))
                /\ proc' = proc
           ELSE IF IsFinished(job[1].status)
           THEN /\ lastOp' = Op("process", JobResponse(job_id, job[1]))
                /\ proc' = proc
           ELSE /\ lastOp' = Op("process_lookup", Pending)
                /\ proc' = [proc EXCEPT ![d] = [Idle EXCEPT !.pc = "guarded", !.jid = job_id]]
    /\ UNCHANGED <<store, nextId, now, mongo>>

\* update_status(job_id, PROCESSING); a store failure enters the except clause.
ProcessTransition(d) ==
    /\ At(d, "guarded")
    /\ \/ \E t2 \in Later(now) :
            /\ store' = JobRepository_update_status(store, proc[d].jid, PROCESSING, None, now, t2)
            /\ now' = t2
            /\ proc' = Goto(d, "transitioned")
       \/ /\ proc' = [proc EXCEPT ![d].pc = "failing", ![d].err = Some("StorageError")]
          /\ UNCHANGED <<store, now>>
    /\ lastOp' = Op("process_transition", Pending)
    /\ UNCHANGED <<nextId, mongo>>

\* What _process_job_logic returns: a fresh map for each execution, told apart
\* here by the delivery that ran it.
processing_result(d) == Some([processed |-> TRUE, run |-> d])

\* _process_job_logic(job): the pluggable logic returns its result or raises.
ProcessLogic(d) ==
    /\ At(d, "transitioned")
    /\ \/ proc' = Goto(d, "executed")
       \/ proc' = [proc EXCEPT ![d].pc = "failing", ![d].err = Some("ProcessingError")]
    /\ lastOp' = Op("process_logic", Pending)
    /\ UNCHANGED <<store, nextId, now, mongo>>

\* A success path that marks the job COMPLETED without storing the result.
completed_data_without_result(result, t) ==
    [status |-> COMPLETED, completed_at |-> Some(t)]

\* The $set of the success path.
completed_data(result, t) ==
    [status |-> COMPLETED, result |-> result, completed_at |-> Some(t)]

\* An except clause that records the error without closing the job.
failed_data_unstamped(error, t) == [status |-> PROCESSING, error |-> error]

\* The $set of the except clause.
failed_data(error, t) ==
    [status |-> FAILED, error |-> error, completed_at |-> Some(t)]

\* JobResponse.model_validate(job) of what repository.update returned.
Validated(s, id) == IF id \in DOMAIN s THEN JobResponse(id, s[id]) ELSE Raised("ValidationError")

\* repository.update(job_id, {COMPLETED ...}) and the return; a store failure
\* enters the except clause.
ProcessComplete(d) ==
    /\ At(d, "executed")
    /\ \/ /\ store' = BaseRepository_update(store, proc[d].jid, completed_data(processing_result(d), now))
          /\ proc' = [proc EXCEPT ![d] = Idle]
          /\ lastOp' = Op("process", Validated(store', proc[d].jid))
       \/ /\ proc' = [proc EXCEPT ![d].pc = "failing", ![d].err = Some("StorageError")]
          /\ lastOp' = Op("process_complete", Pending)
          /\ UNCHANGED store
    /\ UNCHANGED <<nextId, now, mongo>>

\* except Exception as e: repository.update(job_id, {FAILED ...}); raise.
ProcessFail(d) ==
    /\ At(d, "failing")
    /\ \/ /\ store' = BaseRepository_update(store, proc[d].jid, failed_data(proc[d].err, now))
          /\ lastOp' = Op("process", Raised(proc[d].err[1]))
       \/ /\ lastOp' = Op("process", Raised("StorageError"))
          /\ UNCHANGED store
    /\ proc' = [proc EXCEPT ![d] = Idle]
    /\ UNCHANGED <<nextId, now, mongo>>

ProcessStep(d) ==
    \/ \E j \in JobIds : ProcessLookup(d, j)
    \/ ProcessTransition(d)
    \/ ProcessLogic(d)
    \/ ProcessComplete(d)
    \/ ProcessFail(d)

\* ------------------------------------------------------- specifications
\* The calls the HTTP surface makes: the job service, and the deliveries of
\* the processing callback.
Next ==
    \/ Tick
    \/ \E u \in Users, c \in JobCreates : CreateJob(u, c)
    \/ \E j \in JobIds, p \in JobUpdates, u \in Users : UpdateJob(j, p, u)
    \/ \E j \in JobIds, u \in Users : DeleteJob(j, u)
    \/ \E d \in Deliveries : ProcessStep(d)

Spec == Init /\ [][Next]_vars

\* The service together with the repository operations no service method
\* calls (a sweeper or an operator would): update_status with any status,
\* increment_attempts, cleanup_old_jobs, find_stalled_jobs.  User updates set
\* the title only.
NextRepository ==
    \/ \E j \in JobIds, s \in JobStatus : \E e \in Errors(s) : UpdateStatus(j, s, e)
    \/ \E j \in JobIds : IncrementAttempts(j)
    \/ \E days \in 0..MaxTime : CleanupOldJobs(days)
    \/ \E threshold_minutes \in 0..MaxTime : FindStalledJobs(threshold_minutes)
    \/ Tick
    \/ \E u \in Users, c \in JobCreates : CreateJob(u, c)
    \/ \E j \in JobIds, u \in Users : UpdateJob(j, [title |-> Some("b"), priority |-> None], u)
    \/ \E j \in JobIds, u \in Users : DeleteJob(j, u)
    \/ \E d \in Deliveries : ProcessStep(d)

SpecRepository == Init /\ [][NextRepository]_vars

\* The owner-scoped calls of the service alone, reads included.
NextAccess ==
    \/ Tick
    \/ \E u \in Users, c \in JobCreates : CreateJob(u, c)
    \/ \E j \in JobIds, u \in Users : GetJob(j, u)
    \/ \E j \in JobIds, p \in JobUpdates, u \in Users : UpdateJob(j, p, u)
    \/ \E j \in JobIds, u \in Users : DeleteJob(j, u)

SpecAccess == Init /\ [][NextAccess]_vars

\* One job, already created and QUEUED, and the calls that can reach it
\* without its owner: deliveries of the callback and delete_job.
InitQueued ==
    /\ \E u \in Users, c \in JobCreates :
          store = (1 :> JobRepository_create(u, c, QUEUED, 0, 0))
    /\ nextId = 2
    /\ now = 0
    /\ proc = [d \in Deliveries |-> Idle]
    /\ lastOp = Op("init", Pending)
    /\ mongo = Connected

NextProcess ==
    \/ Tick
    \/ \E j \in JobIds, u \in Users : DeleteJob(j, u)
    \/ \E d \in Deliveries : ProcessStep(d)

SpecProcess == InitQueued /\ [][NextProcess]_vars

\* A collection of up to MaxListed jobs of both users, QUEUED or PROCESSING,
\* created at any time, and the list_jobs calls made on it.
ListedJob(user_id, status, t) ==
    LET created == (1 :> JobRepository_create(user_id, [title |-> "a", priority |-> 0], QUEUED, t, t))
    IN  IF status = QUEUED THEN created[1]
        ELSE JobRepository_update_status(created, 1, status, None, t, t)[1]

ListedJobs == {ListedJob(u, st, t) : u \in Users, st \in {QUEUED, PROCESSING}, t \in 0..MaxTime}

InitListed ==
    /\ \E n \in 0..MaxListed : store \in [1..n -> ListedJobs] /\ nextId = n + 1
    /\ now = MaxTime
    /\ proc = [d \in Deliveries |-> Idle]
    /\ lastOp = Op("init", Pending)
    /\ mongo = Connected

StatusFilters == {None, Some(""), Some(QUEUED), Some(PROCESSING)}

NextListed ==
    \E u \in Users, st \in StatusFilters, skip \in 0..MaxSkip, limit \in 0..MaxLimit :
        ListJobs(u, st, skip, limit)

SpecListed == InitListed /\ [][NextListed]_vars

\* ---------------------------------------------------------------- claims
Finished == {COMPLETED, FAILED}

\* C1: a process_job call that finds the stored job COMPLETED or FAILED ends
\* in that step: it returns the stored document as it is, never reaches the
\* processing logic, and leaves every field of the stored job unchanged.
C1_ProcessIdempotent ==
    [][\A d \in Deliveries, j \in JobIds :
         (ProcessLookup(d, j) /\ j \in DOMAIN store /\ store[j].status \in Finished)
            => /\ lastOp' = Op("process", JobResponse(j, store[j]))
               /\ store' = store
               /\ proc' = proc]_vars

\* A FAILED document is returned only by the guard: the success path returns
\* the document it has just written as COMPLETED.
C1_Witness ==
    /\ lastOp.op = "process"
    /\ lastOp.ret.kind = "job"
    /\ lastOp.ret.status = FAILED

\* C2: once the stored job is COMPLETED or FAILED, no step of any process_job
\* call changes its status, result, error or completed_at.
C2_TerminalNotRewritten ==
    [][\A d \in Deliveries, j \in JobIds :
         (ProcessStep(d) /\ j \in DOMAIN store /\ j \in DOMAIN store'
                         /\ store[j].status \in Finished)
            => /\ store'[j].status = store[j].status
               /\ store'[j].result = store[j].result
               /\ store'[j].error = store[j].error
               /\ store'[j].completed_at = store[j].completed_at]_vars

\* C3: update_status on a job whose stored status is COMPLETED or FAILED is
\* rejected or leaves the stored status unchanged.
C3_NoTerminalRegression ==
    [][\A j \in JobIds, s \in JobStatus : \A e \in Errors(s) :
         (UpdateStatus(j, s, e) /\ j \in DOMAIN store /\ store[j].status \in Finished)
            => \/ lastOp'.ret.kind = "raise"
               \/ store'[j].status = store[j].status]_vars

\* C4: update_job called by a user who does not own the job leaves every
\* field of the stored job unchanged.
C4_NoForeignMutation ==
    [][\A j \in JobIds, p \in JobUpdates, u \in Users :
         (UpdateJob(j, p, u) /\ j \in DOMAIN store /\ store[j].user_id # u)
            => store' = store]_vars

\* C5: a job leaves the store only by delete_job called with the job's own
\* user_id, or by cleanup_old_jobs of a COMPLETED or FAILED job older than
\* the given age.
C5_RemovedOnlyByOwnerOrCleanup ==
    [][\A j \in DOMAIN store :
         j \notin DOMAIN store'
            => \/ DeleteJob(j, store[j].user_id)
               \/ \E days \in 0..MaxTime :
                     /\ CleanupOldJobs(days)
                     /\ store[j].status \in Finished
                     /\ store[j].created_at < now - days]_vars

\* C6: to a caller who does not own an existing job, update_job returns what
\* it returns for an id that does not exist (absent, or the rejection of an
\* empty update), and delete_job returns false.
C6_MismatchIsNotFound ==
    [][\A j \in JobIds, u \in Users :
         (j \in DOMAIN store /\ store[j].user_id # u)
            => /\ DeleteJob(j, u) => lastOp'.ret = Bool(FALSE)
               /\ \A p \in JobUpdates :
                     UpdateJob(j, p, u) => lastOp'.ret.kind \in {"absent", "raise"}]_vars

\* C7: for every stored job and every user, get(job_id, user) returns the job
\* to its owner and absent to anyone else, get_by_id(job_id) returns the job,
\* and a get_job call returns the response of the job or absent accordingly.
C7_ReadIsolation ==
    /\ \A j \in DOMAIN store, u \in Users :
          /\ JobRepository_get_by_id(store, j) = Some(store[j])
          /\ JobRepository_get(store, j, u)
                = IF u = store[j].user_id THEN Some(store[j]) ELSE None
    /\ lastOp.op = "get" =>
          lastOp.ret = IF /\ lastOp.job_id \in DOMAIN store
                          /\ store[lastOp.job_id].user_id = lastOp.user_id
                       THEN JobResponse(lastOp.job_id, store[lastOp.job_id])
                       ELSE Absent

\* A get_job call by another user than the owner of a stored job has returned.
C7_Witness ==
    /\ lastOp.op = "get"
    /\ lastOp.job_id \in DOMAIN store
    /\ store[lastOp.job_id].user_id # lastOp.user_id
    /\ JobRepository_get_by_id(store, lastOp.job_id) # None

\* C8: a QUEUED job has no started_at, and a QUEUED or PROCESSING job has no
\* completed_at.
C8_TimestampsMatchStatus ==
    \A j \in DOMAIN store :
        /\ store[j].status = QUEUED => store[j].started_at = None
        /\ store[j].status \in {QUEUED, PROCESSING} => store[j].completed_at = None

\* C9: a COMPLETED job has a result and no error, a FAILED job has an error
\* and no result.
C9_ResultXorError ==
    \A j \in DOMAIN store :
        /\ store[j].status = COMPLETED => store[j].result # None /\ store[j].error = None
        /\ store[j].status = FAILED => store[j].error # None /\ store[j].result = None

\* C10: no step of a process_job call changes the status of a job whose
\* stored status is CANCELLED.
C10_CancelledIsTerminal ==
    [][\A d \in Deliveries, j \in JobIds :
         (ProcessStep(d) /\ j \in DOMAIN store /\ j \in DOMAIN store'
                         /\ store[j].status = CANCELLED)
            => store'[j].status = CANCELLED]_vars

\* C11: every create_job call stores a job with status QUEUED, attempts 0, no
\* started_at, no completed_at, the caller's user_id and created_at equal to
\* updated_at, and the response it returns shows the same values.
C11_CreatedJobShape ==
    [][\A u \in Users, c \in JobCreates :
         CreateJob(u, c)
            => /\ nextId \in DOMAIN store'
               /\ store'[nextId].status = QUEUED
               /\ store'[nextId].attempts = 0
               /\ store'[nextId].started_at = None
               /\ store'[nextId].completed_at = None
               /\ store'[nextId].user_id = u
               /\ store'[nextId].created_at = store'[nextId].updated_at
               /\ lastOp'.ret.kind = "job"
                     => /\ lastOp'.ret.status = QUEUED
                        /\ lastOp'.ret.created_at = lastOp'.ret.updated_at]_vars

\* C12: when _process_job_logic raises in a process_job call that passed the
\* guard, the call ends in the except clause: unless the store refuses the
\* write, it raises the logic's exception to its caller and the job, if still
\* stored, then has status FAILED, error set to the exception's message and
\* completed_at set to the time of the write.
C12_FailureRecordedAndReraised ==
    [][\A d \in Deliveries :
         (ProcessFail(d) /\ proc[d].err = Some("ProcessingError"))
            => \/ /\ lastOp' = Op("process", Raised("StorageError"))
                  /\ store' = store
               \/ /\ lastOp' = Op("process", Raised("ProcessingError"))
                  /\ proc'[d] = Idle
                  /\ DOMAIN store' = DOMAIN store
                  /\ proc[d].jid \in DOMAIN store
                        => /\ store'[proc[d].jid].status = FAILED
                           /\ store'[proc[d].jid].error = Some("ProcessingError")
                           /\ store'[proc[d].jid].completed_at = Some(now)]_vars

\* A process_job call has raised the logic's exception and the job is FAILED.
C12_Witness ==
    /\ lastOp = Op("process", Raised("ProcessingError"))
    /\ \E j \in DOMAIN store :
          /\ store[j].status = FAILED
          /\ store[j].error = Some("ProcessingError")
          /\ store[j].completed_at # None

\* C13: a process_job call that finds the job QUEUED and whose logic succeeds
\* takes the job through QUEUED, PROCESSING, COMPLETED in this order, as long
\* as no other call writes in between: the first write sets status PROCESSING
\* and started_at, the logic runs only after that write (started_at is set on
\* the stored job) and before the second write, and the second write sets
\* status COMPLETED, result to what the logic returned and completed_at, and
\* the call returns the job so written.
C13_SuccessSequence ==
    [][\A d \in Deliveries :
         LET j == proc[d].jid
         IN  j \in DOMAIN store =>
               /\ (ProcessTransition(d) /\ proc'[d].pc = "transitioned" /\ store[j].status = QUEUED)
                     => /\ store'[j].status = PROCESSING
                        /\ store'[j].started_at \in {Some(now), Some(now')}
                        /\ store'[j].result = None
                        /\ store'[j].completed_at = None
               /\ ProcessLogic(d)
                     => /\ proc[d].pc = "transitioned"
                        /\ store[j].started_at # None
                        /\ store' = store
               /\ (ProcessComplete(d) /\ proc'[d].pc = "idle")
                     => /\ proc[d].pc = "executed"
                        /\ store'[j].status = COMPLETED
                        /\ store'[j].result = processing_result(d)
                        /\ store'[j].completed_at = Some(now)
                        /\ store'[j].started_at = store[j].started_at
                        /\ lastOp' = Op("process", JobResponse(j, store'[j]))]_vars

\* A process_job call has returned the job COMPLETED with the result of its
\* own run of the logic, started before it completed.
C13_Witness ==
    /\ lastOp.op = "process"
    /\ lastOp.ret.kind = "job"
    /\ lastOp.ret.status = COMPLETED
    /\ lastOp.ret.result \in {processing_result(d) : d \in Deliveries}
    /\ lastOp.ret.started_at # None
    /\ lastOp.ret.completed_at # None

\* C14: a process_job call for an id that has no stored job raises the
\* not-found error (ValueError) in its first step: the call is over, the
\* processing logic is never reached, and the store is unchanged (no document
\* created or modified).
C14_ProcessAbsentRaises ==
    [][\A d \in Deliveries, j \in JobIds :
         (ProcessLookup(d, j) /\ j \notin DOMAIN store)
            => /\ lastOp' = Op("process", Raised("ValueError"))
               /\ proc' = proc
               /\ proc'[d].pc = "idle"
               /\ store' = store]_vars

\* A process_job call has raised not-found for an id that is not stored.
C14_Witness ==
    /\ lastOp = Op("process", Raised("ValueError"))
    /\ \E j \in JobIds : j \notin DOMAIN store

\* C15: when _schedule_processing raises in create_job, the exception reaches
\* the caller of create_job and the job just inserted stays in the store with
\* status QUEUED and attempts 0; every other stored job is unchanged.
C15_DispatchFailureKeepsJob ==
    [][\A u \in Users, c \in JobCreates :
         (CreateJob(u, c) /\ lastOp'.ret.kind = "raise")
            => /\ lastOp' = Created(Raised("DispatchError"), <<>>)
               /\ DOMAIN store' = DOMAIN store \cup {nextId}
               /\ store'[nextId].status = QUEUED
               /\ store'[nextId].attempts = 0
               /\ store'[nextId].user_id = u
               /\ \A j \in DOMAIN store : store'[j] = store[j]]_vars

\* create_job has raised the scheduling failure and the job is stored QUEUED.
C15_Witness ==
    /\ lastOp = Created(Raised("DispatchError"), <<>>)
    /\ \E j \in DOMAIN store : store[j].status = QUEUED /\ store[j].attempts = 0

\* One stored job and every call that writes to it without creating it: the
\* direct repository transitions and increments, user updates, delete, and
\* one process_job call in flight.
NextWrites ==
    \/ \E j \in JobIds, s \in JobStatus : \E e \in Errors(s) : UpdateStatus(j, s, e)
    \/ \E j \in JobIds : IncrementAttempts(j)
    \/ Tick
    \/ \E j \in JobIds, u \in Users : UpdateJob(j, [title |-> Some("b"), priority |-> None], u)
    \/ \E j \in JobIds, u \in Users : DeleteJob(j, u)
    \/ ProcessStep(1)

SpecWrites == InitQueued /\ [][NextWrites]_vars

\* ------------------------------------------------------------- liveness
\* A step of process_job while the store is available: no store call of the
\* step fails.
ProcessStepAvailable(d) ==
    /\ ProcessStep(d)
    /\ proc'[d].err # Some("StorageError")
    /\ lastOp'.ret # Raised("StorageError")

\* One QUEUED job whose callback was scheduled; the dispatcher delivers it any
\* number of times, the store stays available and the job is not deleted.
NextDelivered ==
    \/ Tick
    \/ \E d \in Deliveries : ProcessStepAvailable(d)

\* Every delivery keeps being made and every started call runs to its end.
SpecDelivered ==
    /\ InitQueued
    /\ [][NextDelivered]_vars
    /\ \A d \in Deliveries : WF_vars(ProcessStepAvailable(d))

Terminal(j) == j \in DOMAIN store /\ store[j].status \in Finished

\* C16: the scheduled job eventually has status COMPLETED or FAILED, and once
\* it has, it keeps a terminal status for ever.
C16_ReachesTerminalAndStays ==
    \A j \in JobIds :
        /\ <>(j \in DOMAIN store => Terminal(j))
        /\ [](Terminal(j) => [](j \in DOMAIN store => Terminal(j)))

\* C17: every step that changes a field of a stored job also sets the job's
\* updated_at to the time of the step (a clock value read during it).
C17_UpdatedAtRefreshed ==
    [][\A j \in DOMAIN store \cap DOMAIN store' :
         store'[j] # store[j] => store'[j].updated_at \in now..now']_vars

\* The fields of JobUpdate, and the other fields of a stored job.
Descriptive == {"title", "priority"}

\* C18: an update_job call by the owner of a stored job, when the store
\* accepts it, sets each descriptive field the caller set to the value given
\* and leaves every other field of the job, and every other job, as it was:
\* the descriptive fields not set, and status, attempts, started_at,
\* completed_at, result, error, created_at and user_id.
C18_PartialUpdateFrame ==
    [][\A j \in JobIds, p \in JobUpdates, u \in Users :
         (UpdateJob(j, p, u) /\ j \in DOMAIN store /\ store[j].user_id = u
                             /\ lastOp'.ret.kind # "raise")
            => /\ DOMAIN store' = DOMAIN store
               /\ \A f \in DOMAIN store[j] :
                     store'[j][f] = IF f \in Descriptive /\ p[f] # None
                                    THEN p[f][1] ELSE store[j][f]
               /\ \A k \in DOMAIN store \ {j} : store'[k] = store[k]
               /\ lastOp'.ret = JobResponse(j, store'[j])]_vars

\* The owner has set the title alone: the title is new, the priority is the
\* one the job was created with.
C18_Witness ==
    /\ lastOp.op = "update"
    /\ lastOp.ret.kind = "job"
    /\ lastOp.job_id \in DOMAIN store
    /\ store[lastOp.job_id].user_id = lastOp.user_id
    /\ store[lastOp.job_id].title = "b"
    /\ store[lastOp.job_id].priority = 0

\* C19: no step changes the _id or the user_id of a stored job: a job that is
\* in the store before and after a step is stored under the same _id with the
\* same user_id, and an _id, once assigned, is not assigned to a new job.
C19_IdentityAndOwnerFixed ==
    [][/\ \A j \in DOMAIN store \cap DOMAIN store' :
             store'[j].user_id = store[j].user_id
       /\ \A j \in DOMAIN store' \ DOMAIN store : j = nextId /\ nextId' > j]_vars

\* A job has been through a user update by someone else than its owner, a
\* status transition and an attempt increment, and is still its owner's.
C19_Witness ==
    /\ lastOp.op = "update"
    /\ lastOp.job_id \in DOMAIN store
    /\ store[lastOp.job_id].user_id # lastOp.user_id
    /\ store[lastOp.job_id].title = "b"
    /\ store[lastOp.job_id].status # QUEUED
    /\ store[lastOp.job_id].attempts > 0

\* C20: a job enters the store with attempts 0, and no step leaves a stored
\* job with a lower attempts value than it had before the step, or with a
\* negative one; increment_attempts raises it by exactly one.
C20_AttemptsMonotone ==
    [][/\ \A j \in DOMAIN store' :
             /\ store'[j].attempts >= 0
             /\ j \in DOMAIN store => store'[j].attempts >= store[j].attempts
             /\ j \notin DOMAIN store => store'[j].attempts = 0
       /\ \A j \in DOMAIN store :
             IncrementAttempts(j) => store'[j].attempts = store[j].attempts + 1]_vars

\* increment_attempts has raised the attempts of a stored job above 0.
C20_Witness ==
    /\ lastOp.op = "increment_attempts"
    /\ lastOp.ret.kind = "job"
    /\ \E j \in DOMAIN store : store[j].attempts > 0

\* The jobs the query of find_stalled_jobs selects at time t with threshold m:
\* PROCESSING, started more than m before t, fewer than 3 attempts.
Stalled(s, t, m) ==
    {j \in DOMAIN s : /\ s[j].status = PROCESSING
                      /\ s[j].started_at # None
                      /\ s[j].started_at[1] < t - m
                      /\ s[j].attempts < 3}

\* C21: find_stalled_jobs(m), called while some job is PROCESSING, started
\* more than m ago and below 3 attempts, returns exactly the jobs that are so,
\* and changes no job.
C21_FindStalledReturnsStalled ==
    [][\A m \in 0..MaxTime :
         (FindStalledJobs(m) /\ Stalled(store, now, m) # {})
            => /\ lastOp'.ret.kind = "list"
               /\ {job.id : job \in lastOp'.ret.items} = Stalled(store, now, m)
               /\ store' = store]_vars

\* The jobs the filter of cleanup_old_jobs selects at time t with age d:
\* COMPLETED or FAILED, created more than d before t.
Expired(s, t, d) ==
    {j \in DOMAIN s : s[j].status \in Finished /\ s[j].created_at < t - d}

\* C22: cleanup_old_jobs(d), called while some job is COMPLETED or FAILED and
\* created more than d ago, removes exactly the jobs that are so, returns how
\* many it removed, and leaves every other job as it was.
C22_CleanupDeletesExpired ==
    [][\A d \in 0..MaxTime :
         (CleanupOldJobs(d) /\ Expired(store, now, d) # {})
            => /\ DOMAIN store' = DOMAIN store \ Expired(store, now, d)
               /\ \A j \in DOMAIN store' : store'[j] = store[j]
               /\ lastOp'.ret = [kind |-> "count", val |-> Cardinality(Expired(store, now, d))]]_vars

\* C24: when the PROCESSING transition of a process_job call is applied to a
\* job that is already PROCESSING, status stays PROCESSING, started_at keeps
\* the value of the first entry and updated_at is set to the time of the call.
C24_StartedAtSetOnce ==
    [][\A d \in Deliveries :
         LET j == proc[d].jid
         IN  (ProcessTransition(d) /\ proc'[d].pc = "transitioned"
                 /\ j \in DOMAIN store /\ store[j].status = PROCESSING)
               => /\ store'[j].status = PROCESSING
                  /\ store'[j].started_at = store[j].started_at
                  /\ store'[j].updated_at \in now..now']_vars

\* The edges of the job lifecycle.
Edges == {<<QUEUED, PROCESSING>>, <<PROCESSING, COMPLETED>>, <<PROCESSING, FAILED>>}

\* C25: every change of a stored job's status by the service follows an edge
\* QUEUED -> PROCESSING or PROCESSING -> COMPLETED / FAILED, so no job returns
\* to QUEUED, and a job that is COMPLETED or FAILED has started_at set.
C25_StatusFollowsEdges ==
    [][\A j \in DOMAIN store \cap DOMAIN store' :
         /\ store'[j].status # store[j].status
               => <<store[j].status, store'[j].status>> \in Edges
         /\ store'[j].status \in Finished => store'[j].started_at # None]_vars

\* C26: the except clause of process_job writes FAILED only for a failure of
\* the processing logic: a call whose PROCESSING write or COMPLETED write
\* failed with a store error does not leave the job FAILED.
C26_FailedOnlyOnLogicFailure ==
    [][\A d \in Deliveries :
         LET j == proc[d].jid
         IN  (ProcessFail(d) /\ j \in DOMAIN store /\ store'[j] # store[j]
                             /\ store'[j].status = FAILED)
               => proc[d].err = Some("ProcessingError")]_vars

\* C28: for every stored job, created_at is not after updated_at, and when
\* started_at and completed_at are both set, started_at is not after
\* completed_at.
C28_TimestampsOrdered ==
    \A j \in DOMAIN store :
        /\ store[j].created_at <= store[j].updated_at
        /\ (store[j].started_at # None /\ store[j].completed_at # None)
              => store[j].started_at[1] <= store[j].completed_at[1]

\* C29: a process_job call whose PROCESSING transition finds no document (the
\* job was deleted after the lookup) does not go on to the processing logic:
\* after that step the call is not at the point where _process_job_logic is
\* its next statement.
C29_LogicOnlyForStoredJob ==
    [][\A d \in Deliveries :
         (ProcessTransition(d) /\ proc[d].jid \notin DOMAIN store
                               /\ proc'[d].err = None)
            => proc'[d].pc # "transitioned"]_vars

Min(a, b) == IF a <= b THEN a ELSE b
Max(a, b) == IF a >= b THEN a ELSE b

\* The stored jobs of a user, of the given status when a status is given.
Matching(s, user_id, status) ==
    {j \in DOMAIN s : /\ s[j].user_id = user_id
                      /\ status # None => s[j].status = status[1]}

\* C23: list_jobs(user, status, skip, limit) returns jobs of that user only
\* (of that status only, when a status is given), each at most once, newest
\* created_at first, and as many as min(limit, max(0, n - skip)), n being the
\* number of the user's jobs (of that status).
C23_ListPage ==
    [][\A u \in Users, st \in StatusFilters, skip \in 0..MaxSkip, limit \in 0..MaxLimit :
         ListJobs(u, st, skip, limit)
            => LET items == lastOp'.ret.items
                   n == Cardinality(Matching(store, u, st))
               IN  /\ \A i \in DOMAIN items : items[i].id \in Matching(store, u, st)
                   /\ \A i, k \in DOMAIN items : i # k => items[i].id # items[k].id
                   /\ \A i, k \in DOMAIN items : i < k => items[i].created_at >= items[k].created_at
                   /\ Len(items) = Min(limit, Max(0, n - skip))]_vars

\* C27: an increment_attempts call on a stored job, whatever its status and
\* whatever other calls are in flight, raises attempts by exactly one, sets
\* updated_at and changes nothing else; on an id that is not stored it returns
\* absent and stores nothing.  No other step changes attempts, so N calls
\* raise it by exactly N.
C27_IncrementAtomic ==
    [][\A j \in JobIds :
         /\ IncrementAttempts(j)
               => IF j \in DOMAIN store
                  THEN /\ store' = [store EXCEPT ![j] = [@ EXCEPT !.attempts = @ + 1,
                                                                  !.updated_at = now]]
                       /\ lastOp'.ret = JobResponse(j, store'[j])
                  ELSE /\ store' = store
                       /\ lastOp'.ret = Absent
         /\ (j \in DOMAIN store /\ j \in DOMAIN store'
                /\ store'[j].attempts # store[j].attempts)
               => IncrementAttempts(j)]_vars

\* Two increment_attempts calls have been made on a job that is no longer
\* QUEUED, the second one while a process_job call is in flight.
C27_Witness ==
    /\ lastOp.op = "increment_attempts"
    /\ \E j \in DOMAIN store : store[j].attempts = 2 /\ store[j].status # QUEUED
    /\ \E d \in Deliveries : proc[d].pc # "idle"

\* C30: no step of process_job, update_status, increment_attempts or
\* update_job puts a document in the store under an id that was not stored
\* before the step: a job deleted while a process_job call on it is in
\* flight is still gone when the call ends.
C30_NoDocumentCreated ==
    [][/\ DOMAIN store' \subseteq DOMAIN store
       /\ \A d \in Deliveries :
             (proc[d].pc # "idle" /\ proc'[d].pc = "idle" /\ proc[d].jid \notin DOMAIN store)
                => proc[d].jid \notin DOMAIN store']_vars

\* A process_job call has run to its end on a job that was deleted under it.
C30_Witness ==
    /\ lastOp = Op("process", Raised("ValidationError"))
    /\ store = <<>>
    /\ \A d \in Deliveries : proc[d].pc = "idle"

\* C31: under the calls of the job service alone (create_job, update_job,
\* delete_job and any number of process_job deliveries, succeeding or
\* failing), every stored job has attempts 0.
C31_ServiceKeepsAttempts ==
    \A j \in DOMAIN store : store[j].attempts = 0

\* A job that a user has updated and a delivery has brought to COMPLETED or
\* FAILED, the last call being a process_job call that raised.
C31_Witness ==
    /\ lastOp.op = "process"
    /\ lastOp.ret.kind = "raise"
    /\ \E j \in DOMAIN store :
          /\ store[j].status \in Finished
          /\ store[j].title = "b"
          /\ store[j].result # None
          /\ store[j].error # None

\* Repeated create_job calls on an empty collection, each job read back by
\* get_job: the first inserted id is one below the ids of the other
\* specifications, so that two creates fit under MaxJobs.
InitCreate ==
    /\ store = <<>>
    /\ nextId = 0
    /\ now = 0
    /\ proc = [d \in Deliveries |-> Idle]
    /\ lastOp = Op("init", Pending)
    /\ mongo = Connected

NextCreate ==
    \/ Tick
    \/ \E u \in Users, c \in JobCreates : CreateJob(u, c)
    \/ \E j \in 0..MaxJobs, u \in Users : GetJob(j, u)

SpecCreate == InitCreate /\ [][NextCreate]_vars

\* C32: create is not idempotent. Every create_job call, whatever is stored
\* already (a job with the same request and owner included), inserts one new
\* document under an id no stored job has, QUEUED and owned by the caller,
\* and leaves the stored jobs as they are; a call that returns a job has had
\* create_task accept exactly one task, whose url names the new job's id.
C32_CreateNotIdempotent ==
    [][\A u \in Users, c \in JobCreates :
        CreateJob(u, c)
            => /\ nextId \notin DOMAIN store
               /\ DOMAIN store' = DOMAIN store \cup {nextId}
               /\ \A j \in DOMAIN store : store'[j] = store[j]
               /\ store'[nextId].status = QUEUED
               /\ store'[nextId].user_id = u
               /\ store'[nextId].title = c.title
               /\ store'[nextId].priority = c.priority
               /\ lastOp'.ret.kind = "job"
                    => /\ lastOp'.ret.id = nextId
                       /\ Len(lastOp'.tasks) = 1
                       /\ lastOp'.tasks[1].url = <<"jobs", nextId, "process">>]_vars

\* Two stored jobs of one owner with the same title and priority, both
\* QUEUED, the second create having returned its job with its own task.
C32_Witness ==
    /\ lastOp.op = "create"
    /\ lastOp.ret.kind = "job"
    /\ \E i, j \in DOMAIN store :
          /\ i # j
          /\ lastOp.ret.id = j
          /\ lastOp.tasks = <<schedule_processing(j)>>
          /\ store[i].user_id = store[j].user_id
          /\ store[i].title = store[j].title
          /\ store[i].priority = store[j].priority
          /\ store[i].status = QUEUED
          /\ store[j].status = QUEUED

\* The connection lifecycle alone, from the class as the module defines it.
InitMongo ==
    /\ store = <<>>
    /\ nextId = 1
    /\ now = 0
    /\ proc = [d \in Deliveries |-> Idle]
    /\ lastOp = Op("init", Pending)
    /\ mongo = Disconnected

NextMongo ==
    \/ Connect
    \/ Disconnect
    \/ GetDb

SpecMongo == InitMongo /\ [][NextMongo]_vars

\* The last connect succeeded and no disconnect followed it: the client made
\* last answered its ping and has not been closed.
LastConnectStands ==
    /\ mongo.made > 0
    /\ mongo.made \in mongo.pinged
    /\ mongo.made \notin mongo.closed

\* C33: get_db returns the database only if the last connect succeeded and
\* no disconnect followed it; before any connect, after a failed connect
\* and after disconnect it raises.
C33_GetDbOnlyWhenConnected ==
    lastOp.op = "get_db"
        => /\ lastOp.ret.kind = "db" => LastConnectStands
           /\ ~LastConnectStands => lastOp.ret.kind = "raise"
====
